---- MODULE Spec2Model ----
(***************************************************************************)
(* Model of the ledger of src/app.py: the remote sheet, the header check   *)
(* of connect_to_google_sheet, the TTL cache of load_data_cached,          *)
(* save_data, and FinanceManager (add_transaction and the date queries).   *)
(*                                                                         *)
(* Every remote call (get_all_values, clear, append_row) is one atomic     *)
(* step; the sessions of the application interleave between them.  Cells   *)
(* of the sheet are strings, as get_all_values returns them; the typed     *)
(* rows of a DataFrame are records.                                        *)
(***************************************************************************)
EXTENDS Integers, Sequences, FiniteSets, TLC

VARIABLES
    sheet,    \* the remote sheet: a sequence of rows, each a tuple of 6 cells
    cache,    \* the st.cache_data entry of load_data_cached()
    lock,     \* session computing load_data_cached on a cache miss (0: none)
    pc,       \* position of each session
    ret,      \* where connect_to_google_sheet returns to, per session
    op,       \* the call a session is in or has last finished
    args,     \* the arguments of the session's add_transaction call
    entry,    \* new_entry of the session's add_transaction call
    loaded,   \* the DataFrame built by load_data_cached before it is stored
    data,     \* FinanceManager.data of each session
    result,   \* outcome of the session's last call
    warm,     \* whether the cache held an unexpired snapshot when add_transaction was called
    adds,     \* number of add_transaction calls so far (bounds the runs)
    answer,   \* value returned by the last query, or shown by the last run of the page
    appended  \* the row of the latest save_data that has returned, its clock (see Older),
              \* and whether no call of load_data_cached has run the function body since

vars == <<sheet, cache, lock, pc, ret, op, args, entry, loaded, data, result, warm, adds, answer, appended>>

-----------------------------------------------------------------------------
(* Bounds *)

\* add_transaction calls of the two concurrent sessions together
MaxAdds == 2

\* add_transaction calls of the single session
MaxSoloAdds == 1

\* rows below the first row of a sheet the single session starts on
MaxSeedRows == 1

\* the time that passes in one step of the clock
TickStep == 30

\* add_transaction calls of the session whose page is followed
MaxViewAdds == 2

\* rows below the header of a sheet that page starts on
MaxViewRows == 1

\* two browser sessions of the application
Sessions == {1, 2}

-----------------------------------------------------------------------------
(* Constants of the program *)

HEADERS == <<"date", "type", "description", "amount", "recurring_id", "recurring_active">>

TTL == 60

-----------------------------------------------------------------------------
(* Calendar dates and their text forms *)

Years == {2024, 2025}

IsLeap(y) == (y % 4 = 0 /\ y % 100 # 0) \/ y % 400 = 0

DaysIn(y, m) ==
    IF m = 2 THEN (IF IsLeap(y) THEN 29 ELSE 28)
    ELSE IF m \in {4, 6, 9, 11} THEN 30 ELSE 31

Dates == {dt \in [y : Years, m : 1..12, d : 1..31] : dt.d <= DaysIn(dt.y, dt.m)}

NaT == [y |-> 0, m |-> 0, d |-> 0]

Digit == <<"0", "1", "2", "3", "4", "5", "6", "7", "8", "9">>

RECURSIVE Digits(_)
Digits(n) == IF n < 10 THEN Digit[n + 1] ELSE Digits(n \div 10) \o Digit[(n % 10) + 1]

Pad2(n) == Digit[(n \div 10) + 1] \o Digit[(n % 10) + 1]

Pad4(n) == Pad2(n \div 100) \o Pad2(n % 100)

\* the format with day and month exchanged: '%Y-%d-%m'
strftime_DayFirst(dt) == Pad4(dt.y) \o "-" \o Pad2(dt.d) \o "-" \o Pad2(dt.m)

\* Timestamp.strftime('%Y-%m-%d')
strftime(dt) == Pad4(dt.y) \o "-" \o Pad2(dt.m) \o "-" \o Pad2(dt.d)

\* the month-first form that pd.to_datetime also reads for a single value
UsText(dt) == Pad2(dt.m) \o "/" \o Pad2(dt.d) \o "/" \o Pad4(dt.y)

IsoTexts == {strftime(dt) : dt \in Dates}

UsTexts == {UsText(dt) : dt \in Dates}

\* the date a text of the form YYYY-MM-DD stands for
IsoParse == [s \in IsoTexts |-> CHOOSE dt \in Dates : strftime(dt) = s]

\* the date a text of the form MM/DD/YYYY stands for
UsParse == [s \in UsTexts |-> CHOOSE dt \in Dates : UsText(dt) = s]

\* a cell that does not parse read as a fixed date instead of NaT
to_datetime_coerce_Default(s) ==
    IF s \in IsoTexts THEN IsoParse[s] ELSE [y |-> 2025, m |-> 1, d |-> 5]

\* pd.to_datetime(column, errors="coerce") on one cell: NaT when it does not parse
to_datetime_coerce(s) == IF s \in IsoTexts THEN IsoParse[s] ELSE NaT

\* a date argument: a datetime object or a string
DateObj(y, m, d) == [kind |-> "datetime", y |-> y, m |-> m, d |-> d, text |-> ""]

DateStr(s) == [kind |-> "str", y |-> 0, m |-> 0, d |-> 0, text |-> s]

\* pd.to_datetime(date) on one value; NaT stands for the ValueError it raises
\* (or for the NaT whose strftime raises)
to_datetime(date) ==
    IF date.kind = "datetime" THEN [y |-> date.y, m |-> date.m, d |-> date.d]
    ELSE IF date.text \in IsoTexts THEN IsoParse[date.text]
    ELSE IF date.text \in UsTexts THEN UsParse[date.text]
    ELSE NaT

-----------------------------------------------------------------------------
(* Numbers and their text forms *)

Amounts == {-5, 0, 7, 50, 1000}

\* the text the sheet returns for a number cell
NumText(n) == IF n < 0 THEN "-" \o Digits(0 - n) ELSE Digits(n)

NumTexts == {NumText(n) : n \in Amounts}

\* the number a text stands for
NumParse == [s \in NumTexts |-> CHOOSE n \in Amounts : NumText(n) = s]

IsNumeric(s) == s \in NumTexts

\* pd.to_numeric(column, errors="coerce").fillna(0.0) on one cell
to_numeric(s) == IF IsNumeric(s) THEN NumParse[s] ELSE 0

\* an amount argument: a number or a string
AmtNum(n) == [kind |-> "num", v |-> n, text |-> ""]

AmtStr(s) == [kind |-> "str", v |-> 0, text |-> s]

\* whether float(amount) returns
FloatOk(amount) == amount.kind = "num" \/ IsNumeric(amount.text)

\* float(amount)
float(amount) == IF amount.kind = "num" THEN amount.v ELSE to_numeric(amount.text)

-----------------------------------------------------------------------------
(* Rows of the sheet and rows of a DataFrame *)

Types == {"Income", "Expense", "Bill"}

Uuids == {"u1", "u2"}

\* the cell append_row stores for a Python value of new_entry
BoolText(b) == IF b THEN "TRUE" ELSE "FALSE"

\* None is the empty tuple, a string s is <<s>>
OptText(o) == IF o = <<>> THEN "" ELSE o[1]

\* new_entry with 'if recurring' in place of 'if recurring and ttype == "Bill"'
NewEntry_TagAnyType(a, u) ==
    [date |-> strftime(to_datetime(a.date)),
     type |-> a.ttype,
     description |-> a.desc,
     amount |-> float(a.amount),
     recurring_id |-> IF a.recurring THEN <<a.desc \o "-" \o u>> ELSE <<>>,
     recurring_active |-> TRUE]

\* new_entry of add_transaction, for arguments whose date and amount convert
NewEntry(a, u) ==
    [date |-> strftime(to_datetime(a.date)),
     type |-> a.ttype,
     description |-> a.desc,
     amount |-> float(a.amount),
     recurring_id |-> IF a.recurring /\ a.ttype = "Bill"
                      THEN <<a.desc \o "-" \o u>> ELSE <<>>,
     recurring_active |-> TRUE]

NoEntry ==
    [date |-> "", type |-> "", description |-> "", amount |-> 0,
     recurring_id |-> <<>>, recurring_active |-> TRUE]

\* the list save_data hands to append_row, as the sheet returns it
EntryRow(e) ==
    <<e.date, e.type, e.description, NumText(e.amount),
      OptText(e.recurring_id), BoolText(e.recurring_active)>>

\* one row of the DataFrame of load_data_cached
FrameRow(r) ==
    [date |-> to_datetime_coerce(r[1]),
     type |-> r[2],
     description |-> r[3],
     amount |-> to_numeric(r[4]),
     recurring_id |-> r[5],
     recurring_active |-> r[6]]

\* the DataFrame of load_data_cached for values whose first row is HEADERS,
\* or that hold at most one row
Frame(values) ==
    IF Len(values) <= 1 THEN <<>>
    ELSE [i \in 1..(Len(values) - 1) |-> FrameRow(values[i + 1])]

\* df["amount"] and df["date"] exist: the columns are named by values[0]
HasColumns(values) == Len(values) <= 1 \/ values[1] = HEADERS

\* the test of connect_to_google_sheet for rewriting the header
HeaderBad(values) == values = <<>> \/ values[1] # HEADERS

-----------------------------------------------------------------------------
(* The queries of FinanceManager, over a DataFrame df *)

\* the lambda with Bill counted as an inflow
SignedAmount_BillPositive(row) ==
    IF row.type \in {"Income", "Bill"} THEN row.amount ELSE 0 - row.amount

\* the lambda of get_monthly_total and get_weekly_total
SignedAmount(row) == IF row.type = "Income" THEN row.amount ELSE 0 - row.amount

RECURSIVE SumSigned(_)
SumSigned(rows) ==
    IF rows = <<>> THEN 0 ELSE SignedAmount(Head(rows)) + SumSigned(Tail(rows))

OnDay(row, day) == row.date # NaT /\ row.date = day

\* the filter with the test of the year left out
InMonth_AnyYear(row, year, month) == row.date # NaT /\ row.date.m = month

InMonth(row, year, month) == row.date # NaT /\ row.date.y = year /\ row.date.m = month

InDays(row, days) == row.date # NaT /\ row.date \in days

get_transactions_by_date(df, date) ==
    IF df = <<>> THEN df
    ELSE LET day == to_datetime(date) IN SelectSeq(df, LAMBDA row : OnDay(row, day))

get_monthly_total(df, year, month) ==
    IF df = <<>> THEN 0
    ELSE SumSigned(SelectSeq(df, LAMBDA row : InMonth(row, year, month)))

get_weekly_total(df, week_dates) ==
    IF df = <<>> THEN 0
    ELSE SumSigned(SelectSeq(df, LAMBDA row : InDays(row, week_dates)))

-----------------------------------------------------------------------------
(* The calendar grid of the page and its weeks *)

\* days from 1 January of the first year of Years to 1 January of year y
DaysBeforeYear(y) ==
    LET before == {yy \in Years : yy < y}
    IN  365 * Cardinality(before) + Cardinality({yy \in before : IsLeap(yy)})

\* days from 1 January of year y to the first day of month m
DaysBeforeMonth(y, m) ==
    <<0, 31, 59, 90, 120, 151, 181, 212, 243, 273, 304, 334>>[m]
        + (IF IsLeap(y) /\ m > 2 THEN 1 ELSE 0)

\* datetime.weekday(): Monday is 0.  1 January 2024 was a Monday.
weekday(dt) == (DaysBeforeYear(dt.y) + DaysBeforeMonth(dt.y, dt.m) + dt.d - 1) % 7

\* the grid with range(days_in_month - 1): the last day of the month is left out
calendar_dates_ShortMonth(year, month) ==
    LET first_weekday == weekday([y |-> year, m |-> month, d |-> 1])
        days_in_month == DaysIn(year, month) - 1
        filled == first_weekday + days_in_month
        cells == filled + ((7 - (filled % 7)) % 7)
    IN  [p \in 1..cells |->
            IF p > first_weekday /\ p <= filled
            THEN [y |-> year, m |-> month, d |-> p - first_weekday]
            ELSE NaT]

\* calendar_dates: padding_start, the days of the month, and the padding that
\* fills the last week.  A padding cell "" is NaT here.
calendar_dates(year, month) ==
    LET first_weekday == weekday([y |-> year, m |-> month, d |-> 1])
        days_in_month == DaysIn(year, month)
        filled == first_weekday + days_in_month
        cells == filled + ((7 - (filled % 7)) % 7)
    IN  [p \in 1..cells |->
            IF p > first_weekday /\ p <= filled
            THEN [y |-> year, m |-> month, d |-> p - first_weekday]
            ELSE NaT]

\* week = calendar_dates[i:i+7], for i = 0, 7, 14, ...
WeekOf(cells, k) == SubSeq(cells, 7 * (k - 1) + 1, 7 * k)

\* week_dates = [d.date() for d in week if d != ""]
week_dates(week) == {week[j] : j \in {i \in DOMAIN week : week[i] # NaT}}

\* the grid of every month of Years, computed once
Grids == [ym \in Years \X (1..12) |-> calendar_dates(ym[1], ym[2])]

\* the day lists of the weeks of a month's grid that hold a day
\* (the test "if week_dates:" of the sidebar)
ShownWeeks ==
    [ym \in Years \X (1..12) |->
        LET cells == Grids[ym]
            weeks == [k \in 1..(Len(cells) \div 7) |-> week_dates(WeekOf(cells, k))]
        IN  SelectSeq(weeks, LAMBDA w : w # {})]

\* the sidebar's loop over the weeks: week_dates and
\* get_weekly_total(week_dates) of each week that has a day
WeeklyTotals(df, year, month) ==
    LET shown == ShownWeeks[<<year, month>>]
    IN  [k \in 1..Len(shown) |-> [days |-> shown[k], total |-> get_weekly_total(df, shown[k])]]

-----------------------------------------------------------------------------
(* Arguments the sessions call with *)

AddArgs(date, ttype, desc, amount, recurring) ==
    [date |-> date, ttype |-> ttype, desc |-> desc, amount |-> amount, recurring |-> recurring]

NoArgs == AddArgs(DateStr(""), "", "", AmtNum(0), FALSE)

\* arguments of the concurrent sessions: one of each kind
ConcInputs ==
    {AddArgs(DateObj(2025, 1, 5), "Income", "Paycheck", AmtNum(1000), FALSE),
     AddArgs(DateStr("01/05/2025"), "Expense", "Groceries", AmtStr("50"), FALSE),
     AddArgs(DateStr("not-a-date"), "Bill", "Rent", AmtNum(7), TRUE)}

BaseDate == DateObj(2025, 1, 5)

DateInputs == {BaseDate, DateStr("01/05/2025"), DateStr("2024-12-31"), DateStr("not-a-date")}

AmountInputs == {AmtNum(0), AmtNum(7), AmtStr("50"), AmtStr("-5"), AmtStr("abc")}

\* arguments of the single session: every date, every amount, every type with
\* and without the recurring flag
SoloInputs ==
    {AddArgs(dt, "Income", "Paycheck", AmtNum(7), FALSE) : dt \in DateInputs}
    \cup {AddArgs(BaseDate, "Expense", "Groceries", am, FALSE) : am \in AmountInputs}
    \cup {AddArgs(BaseDate, ty, "Rent", AmtNum(7), re) : ty \in Types \cup {"Transfer"}, re \in BOOLEAN}
    \cup {AddArgs(DateStr("01/05/2025"), "Expense", "Groceries", AmtStr("50"), FALSE),
          AddArgs(DateStr("not-a-date"), "Transfer", "", AmtStr("abc"), TRUE),
          AddArgs(DateStr("2024-12-31"), "Income", "", AmtNum(0), FALSE)}

\* arguments of the session whose page is followed: the paycheck and the
\* groceries of one day, and a bill of the last day of the month before
ViewInputs ==
    {AddArgs(DateObj(2025, 1, 5), "Income", "Paycheck", AmtNum(1000), FALSE),
     AddArgs(DateObj(2025, 1, 5), "Expense", "Groceries", AmtNum(50), FALSE),
     AddArgs(DateStr("2024-12-31"), "Bill", "Rent", AmtNum(7), TRUE)}

\* days and months the queries are asked for
QueryDays == {DateObj(2025, 1, 5), DateObj(2024, 12, 31), DateObj(2025, 2, 1), DateObj(2025, 1, 6)}

\* days whose cell of the grid is followed on the page
ViewDays == {DateObj(2025, 1, 5), DateObj(2024, 12, 31)}

QueryMonths == {<<2025, 1>>, <<2025, 2>>, <<2024, 12>>, <<2024, 1>>}

QueryWeeks ==
    {{[y |-> 2025, m |-> 1, d |-> d] : d \in 5..11},
     {[y |-> 2024, m |-> 12, d |-> 30], [y |-> 2024, m |-> 12, d |-> 31]}
        \cup {[y |-> 2025, m |-> 1, d |-> d] : d \in 1..5}}

-----------------------------------------------------------------------------
(* The cache of st.cache_data(ttl=60) *)

NoCache == [valid |-> FALSE, df |-> <<>>, age |-> 0]

\* a stored entry is served while it is younger than the TTL
CacheHit == cache.valid /\ cache.age < TTL

\* no row appended yet
NoAppend == [row |-> <<>>, age |-> 0, unread |-> FALSE]

NoAnswer == [q |-> "none", rows |-> <<>>, total |-> 0, weeks |-> <<>>, selected |-> <<0, 0>>]

-----------------------------------------------------------------------------
(* Initial states *)

\* rows a sheet may hold before the sessions start
SeedRows ==
    {<<"2025-01-05", "Income", "Paycheck", "1000", "", "TRUE">>,
     <<"not-a-date", "Expense", "Groceries", "50", "", "TRUE">>,
     <<"2024-12-31", "Bill", "Rent", "abc", "Rent-u1", "TRUE">>}

\* first rows a sheet may hold: the header, a header of another order, a data row
FirstRows ==
    {HEADERS,
     <<"type", "date", "description", "amount", "recurring_id", "recurring_active">>,
     <<"2025-01-05", "Income", "Paycheck", "1000", "", "TRUE">>}

RECURSIVE SeqsUpTo(_, _)
SeqsUpTo(S, n) ==
    IF n = 0 THEN {<<>>}
    ELSE LET shorter == SeqsUpTo(S, n - 1)
         IN shorter \cup {Append(q, x) : q \in {t \in shorter : Len(t) = n - 1}, x \in S}

\* a new spreadsheet is empty; an older one holds a first row and rows below it
SoloSheets ==
    {<<>>} \cup {<<f>> \o rows : f \in FirstRows, rows \in SeqsUpTo(SeedRows, MaxSeedRows)}

\* rows of the sheet that page starts on: the last day of a month, the same
\* month of another year, a date that does not parse
ViewRows ==
    {<<"2025-01-31", "Expense", "Groceries", "50", "", "TRUE">>,
     <<"2024-01-05", "Income", "Paycheck", "7", "", "TRUE">>,
     <<"not-a-date", "Bill", "Rent", "7", "Rent-u1", "TRUE">>}

ViewSheets ==
    {<<>>} \cup {<<HEADERS>> \o rows : rows \in SeqsUpTo(ViewRows, MaxViewRows)}

ConcSheets ==
    {<<>>, <<HEADERS>>, <<HEADERS, <<"2025-01-05", "Income", "Paycheck", "1000", "", "TRUE">> >>}

InitWith(sheets) ==
    /\ sheet \in sheets
    /\ cache = NoCache
    /\ lock = 0
    /\ pc = [s \in Sessions |-> "idle"]
    /\ ret = [s \in Sessions |-> "idle"]
    /\ op = [s \in Sessions |-> "none"]
    /\ args = [s \in Sessions |-> NoArgs]
    /\ entry = [s \in Sessions |-> NoEntry]
    /\ loaded = [s \in Sessions |-> <<>>]
    /\ data = [s \in Sessions |-> <<>>]
    /\ result = [s \in Sessions |-> "none"]
    /\ warm = [s \in Sessions |-> FALSE]
    /\ adds = 0
    /\ answer = NoAnswer
    /\ appended = NoAppend

Init == InitWith(ConcSheets)

InitSolo == InitWith(SoloSheets)

InitView == InitWith(ViewSheets)

-----------------------------------------------------------------------------
(* connect_to_google_sheet *)

\* the header check without its test: the header is rewritten on every connect
ConnRead_AlwaysRewrite(s) ==
    /\ pc[s] = "conn_read"
    /\ pc' = [pc EXCEPT ![s] = "conn_clear"]
    /\ UNCHANGED <<sheet, cache, lock, ret, op, args, entry, loaded, data, result, warm, adds, answer, appended>>

\* values = sheet.get_all_values() and the test on the first row
ConnRead(s) ==
    /\ pc[s] = "conn_read"
    /\ IF HeaderBad(sheet)
       THEN pc' = [pc EXCEPT ![s] = "conn_clear"] /\ UNCHANGED ret
       ELSE pc' = [pc EXCEPT ![s] = ret[s]] /\ ret' = [ret EXCEPT ![s] = "idle"]
    /\ UNCHANGED <<sheet, cache, lock, op, args, entry, loaded, data, result, warm, adds, answer, appended>>

\* sheet.clear()
ConnClear(s) ==
    /\ pc[s] = "conn_clear"
    /\ sheet' = <<>>
    /\ pc' = [pc EXCEPT ![s] = "conn_append"]
    /\ UNCHANGED <<cache, lock, ret, op, args, entry, loaded, data, result, warm, adds, answer, appended>>

\* the repair without line 37: the sheet is cleared and no header is written
ConnAppend_NoHeader(s) ==
    /\ pc[s] = "conn_append"
    /\ pc' = [pc EXCEPT ![s] = ret[s]]
    /\ ret' = [ret EXCEPT ![s] = "idle"]
    /\ UNCHANGED <<sheet, cache, lock, op, args, entry, loaded, data, result, warm, adds, answer, appended>>

\* sheet.append_row(HEADERS)
ConnAppend(s) ==
    /\ pc[s] = "conn_append"
    /\ sheet' = Append(sheet, HEADERS)
    /\ pc' = [pc EXCEPT ![s] = ret[s]]
    /\ ret' = [ret EXCEPT ![s] = "idle"]
    /\ UNCHANGED <<cache, lock, op, args, entry, loaded, data, result, warm, adds, answer, appended>>

-----------------------------------------------------------------------------
(* load_data_cached *)

\* the cache holds an unexpired entry: it is returned
LoadHit(s) ==
    /\ pc[s] = "load"
    /\ CacheHit
    /\ data' = [data EXCEPT ![s] = cache.df]
    /\ result' = [result EXCEPT ![s] = "ok"]
    /\ pc' = [pc EXCEPT ![s] = "idle"]
    /\ UNCHANGED <<sheet, cache, lock, ret, op, args, entry, loaded, warm, adds, answer, appended>>

\* no entry: the function body runs.  st.cache_data computes a missing value
\* under a lock of the function, taken after the miss and followed by a second
\* look at the cache, so one session at a time runs the body; clear() does not
\* take that lock.
LoadMiss(s) ==
    /\ pc[s] = "load"
    /\ ~CacheHit
    /\ lock = 0
    /\ lock' = s
    /\ pc' = [pc EXCEPT ![s] = "conn_read"]
    /\ ret' = [ret EXCEPT ![s] = "load_get"]
    /\ appended' = [appended EXCEPT !.unread = FALSE]
    /\ UNCHANGED <<sheet, cache, op, args, entry, loaded, data, result, warm, adds, answer>>

\* values = sheet.get_all_values() and the DataFrame built from it
LoadGet(s) ==
    /\ pc[s] = "load_get"
    /\ IF HasColumns(sheet)
       THEN /\ loaded' = [loaded EXCEPT ![s] = Frame(sheet)]
            /\ pc' = [pc EXCEPT ![s] = "load_store"]
            /\ UNCHANGED <<lock, result>>
       ELSE /\ result' = [result EXCEPT ![s] = "KeyError"]
            /\ pc' = [pc EXCEPT ![s] = "idle"]
            /\ lock' = 0
            /\ UNCHANGED loaded
    /\ UNCHANGED <<sheet, cache, ret, op, args, entry, data, warm, adds, answer, appended>>

\* the result is stored in the cache and returned to the caller
LoadStore(s) ==
    /\ pc[s] = "load_store"
    /\ cache' = [valid |-> TRUE, df |-> loaded[s], age |-> 0]
    /\ lock' = 0
    /\ data' = [data EXCEPT ![s] = loaded[s]]
    /\ loaded' = [loaded EXCEPT ![s] = <<>>]
    /\ result' = [result EXCEPT ![s] = "ok"]
    /\ pc' = [pc EXCEPT ![s] = "idle"]
    /\ UNCHANGED <<sheet, ret, op, args, entry, warm, adds, answer, appended>>

\* the clock of the latest append: it counts the time, since save_data
\* returned, during which the cache held no unexpired snapshot with the
\* appended row, and stops once it is past the TTL.  It never shows more than
\* the time since the append.
Older(ap) ==
    IF ap.row = <<>> \/ ap.age > TTL THEN ap ELSE [ap EXCEPT !.age = ap.age + TickStep]

\* time passes while the cache holds an unexpired entry
Tick ==
    /\ CacheHit
    /\ cache' = [cache EXCEPT !.age = IF cache.age + TickStep >= TTL THEN TTL ELSE cache.age + TickStep]
    /\ appended' = IF appended.row # <<>>
                        /\ \E i \in DOMAIN cache.df : cache.df[i] = FrameRow(appended.row)
                   THEN appended ELSE Older(appended)
    /\ UNCHANGED <<sheet, lock, pc, ret, op, args, entry, loaded, data, result, warm, adds, answer>>

\* time passes while the cache holds no unexpired entry, after an append
Wait ==
    /\ ~CacheHit
    /\ appended.row # <<>>
    /\ appended.age <= TTL
    /\ appended' = Older(appended)
    /\ UNCHANGED <<sheet, cache, lock, pc, ret, op, args, entry, loaded, data, result, warm, adds, answer>>

-----------------------------------------------------------------------------
(* save_data *)

\* sheet.append_row([...])
SaveAppend(s) ==
    /\ pc[s] = "save_append"
    /\ sheet' = Append(sheet, EntryRow(entry[s]))
    /\ pc' = [pc EXCEPT ![s] = "save_clear"]
    /\ UNCHANGED <<cache, lock, ret, op, args, entry, loaded, data, result, warm, adds, answer, appended>>

\* save_data without the invalidation of line 65
SaveClear_NoInvalidate(s) ==
    /\ pc[s] = "save_clear"
    /\ pc' = [pc EXCEPT ![s] = "load"]
    /\ UNCHANGED <<sheet, cache, lock, ret, op, args, entry, loaded, data, result, warm, adds, answer, appended>>

\* load_data_cached.clear(); save_data returns, and the clock of its append starts
SaveClear(s) ==
    /\ pc[s] = "save_clear"
    /\ cache' = NoCache
    /\ appended' = [row |-> EntryRow(entry[s]), age |-> 0, unread |-> TRUE]
    /\ pc' = [pc EXCEPT ![s] = "load"]
    /\ UNCHANGED <<sheet, lock, ret, op, args, entry, loaded, data, result, warm, adds, answer>>

-----------------------------------------------------------------------------
(* FinanceManager *)

\* manager = FinanceManager(): self.data = load_data_cached()
NewManager(s) ==
    /\ pc[s] = "idle"
    /\ op' = [op EXCEPT ![s] = "read"]
    /\ result' = [result EXCEPT ![s] = "none"]
    /\ pc' = [pc EXCEPT ![s] = "load"]
    /\ answer' = NoAnswer
    /\ UNCHANGED <<sheet, cache, lock, ret, args, entry, loaded, data, warm, adds, appended>>

\* manager.add_transaction(date, ttype, desc, amount, recurring) is called
AddCall(s, a, limit) ==
    /\ pc[s] = "idle"
    /\ adds < limit
    /\ adds' = adds + 1
    /\ op' = [op EXCEPT ![s] = "add"]
    /\ args' = [args EXCEPT ![s] = a]
    /\ result' = [result EXCEPT ![s] = "none"]
    /\ warm' = [warm EXCEPT ![s] = CacheHit]
    /\ pc' = [pc EXCEPT ![s] = "add_entry"]
    /\ answer' = NoAnswer
    /\ UNCHANGED <<sheet, cache, lock, ret, entry, loaded, data, appended>>

\* new_entry is built; a date or an amount that does not convert raises
AddEntry(s) ==
    /\ pc[s] = "add_entry"
    /\ IF to_datetime(args[s].date) = NaT \/ ~FloatOk(args[s].amount)
       THEN /\ result' = [result EXCEPT ![s] = "ValueError"]
            /\ pc' = [pc EXCEPT ![s] = "idle"]
            /\ UNCHANGED <<entry, ret>>
       ELSE /\ \E u \in Uuids : entry' = [entry EXCEPT ![s] = NewEntry(args[s], u)]
            /\ pc' = [pc EXCEPT ![s] = "conn_read"]
            /\ ret' = [ret EXCEPT ![s] = "save_append"]
            /\ UNCHANGED result
    /\ UNCHANGED <<sheet, cache, lock, op, args, loaded, data, warm, adds, answer, appended>>

\* manager.get_transactions_by_date(day)
QueryDay(s, day) ==
    /\ pc[s] = "idle"
    /\ op[s] # "none"
    /\ answer' = [q |-> "day", rows |-> get_transactions_by_date(data[s], day), total |-> 0, weeks |-> <<>>, selected |-> <<0, 0>>]
    /\ UNCHANGED <<sheet, cache, lock, pc, ret, op, args, entry, loaded, data, result, warm, adds, appended>>

\* manager.get_monthly_total(year, month)
QueryMonth(s, ym) ==
    /\ pc[s] = "idle"
    /\ op[s] # "none"
    /\ answer' = [q |-> "month", rows |-> <<>>, total |-> get_monthly_total(data[s], ym[1], ym[2]), weeks |-> <<>>,
                  selected |-> <<0, 0>>]
    /\ UNCHANGED <<sheet, cache, lock, pc, ret, op, args, entry, loaded, data, result, warm, adds, appended>>

\* manager.get_weekly_total(week_dates)
QueryWeek(s, week) ==
    /\ pc[s] = "idle"
    /\ op[s] # "none"
    /\ answer' = [q |-> "week", rows |-> <<>>, total |-> get_weekly_total(data[s], week), weeks |-> <<>>,
                  selected |-> <<0, 0>>]
    /\ UNCHANGED <<sheet, cache, lock, pc, ret, op, args, entry, loaded, data, result, warm, adds, appended>>

\* the sidebar of one run of the page: the monthly total of the selected month
\* and the weekly totals of its grid
Sidebar(s, ym) ==
    /\ pc[s] = "idle"
    /\ op[s] # "none"
    /\ answer' = [q |-> "sidebar", rows |-> <<>>,
                  total |-> get_monthly_total(data[s], ym[1], ym[2]),
                  weeks |-> WeeklyTotals(data[s], ym[1], ym[2]),
                  selected |-> ym]
    /\ UNCHANGED <<sheet, cache, lock, pc, ret, op, args, entry, loaded, data, result, warm, adds, appended>>

-----------------------------------------------------------------------------
(* A remote call that fails *)

\* the positions at which a session calls the sheet: get_all_values, clear
\* and append_row of connect_to_google_sheet, get_all_values of
\* load_data_cached, append_row of save_data
RemotePcs == {"conn_read", "conn_clear", "conn_append", "load_get", "save_append"}

\* the failed call handled by 'except: return pd.DataFrame(columns=HEADERS)'
\* in load_data_cached: the empty DataFrame is cached and returned
Fail_EmptyOnError(s) ==
    /\ pc[s] \in RemotePcs
    /\ IF lock = s
       THEN /\ cache' = [valid |-> TRUE, df |-> <<>>, age |-> 0]
            /\ data' = [data EXCEPT ![s] = <<>>]
            /\ result' = [result EXCEPT ![s] = "ok"]
       ELSE /\ result' = [result EXCEPT ![s] = "APIError"]
            /\ UNCHANGED <<cache, data>>
    /\ pc' = [pc EXCEPT ![s] = "idle"]
    /\ ret' = [ret EXCEPT ![s] = "idle"]
    /\ lock' = IF lock = s THEN 0 ELSE lock
    /\ UNCHANGED <<sheet, op, args, entry, loaded, warm, adds, answer, appended>>

\* the call raises (gspread's APIError): no handler is between it and the
\* caller of FinanceManager() or add_transaction, so the exception ends the
\* operation; st.cache_data stores nothing for a body that raises and gives
\* up its lock
Fail(s) ==
    /\ pc[s] \in RemotePcs
    /\ result' = [result EXCEPT ![s] = "APIError"]
    /\ pc' = [pc EXCEPT ![s] = "idle"]
    /\ ret' = [ret EXCEPT ![s] = "idle"]
    /\ lock' = IF lock = s THEN 0 ELSE lock
    /\ UNCHANGED <<sheet, cache, op, args, entry, loaded, data, warm, adds, answer, appended>>

-----------------------------------------------------------------------------
(* Specifications *)

Step(s) ==
    \/ NewManager(s)
    \/ AddEntry(s)
    \/ ConnRead(s)
    \/ ConnClear(s)
    \/ ConnAppend(s)
    \/ SaveAppend(s)
    \/ SaveClear(s)
    \/ LoadHit(s)
    \/ LoadMiss(s)
    \/ LoadGet(s)
    \/ LoadStore(s)

\* two sessions on one sheet and one cache
Next ==
    \/ \E s \in Sessions : Step(s)
    \/ \E s \in Sessions, a \in ConcInputs : AddCall(s, a, MaxAdds)
    \/ Tick
    \/ Wait

Spec == Init /\ [][Next]_vars

\* one session, every argument, and its queries
NextSolo ==
    \/ Step(1)
    \/ \E a \in SoloInputs : AddCall(1, a, MaxSoloAdds)
    \/ \E day \in QueryDays : QueryDay(1, day)
    \/ \E ym \in QueryMonths : QueryMonth(1, ym)
    \/ \E week \in QueryWeeks : QueryWeek(1, week)
    \/ Tick

SpecSolo == InitSolo /\ [][NextSolo]_vars

\* one session and the runs of its page: the grid's days and the sidebar
NextView ==
    \/ Step(1)
    \/ \E a \in ViewInputs : AddCall(1, a, MaxViewAdds)
    \/ \E day \in ViewDays : QueryDay(1, day)
    \/ \E ym \in QueryMonths : Sidebar(1, ym)
    \/ Tick

SpecView == InitView /\ [][NextView]_vars

\* one session whose remote calls can fail
NextFail ==
    \/ Step(1)
    \/ Fail(1)
    \/ \E a \in ViewInputs : AddCall(1, a, MaxViewAdds)
    \/ Tick

SpecFail == InitView /\ [][NextFail]_vars

-----------------------------------------------------------------------------
(* Notions the properties share *)

\* the DataFrame row that a row of new_entry is read back as
Typed(e) == FrameRow(EntryRow(e))

Count(seq, x) == Cardinality({i \in DOMAIN seq : seq[i] = x})

Contains(seq, x) == \E i \in DOMAIN seq : seq[i] = x

\* the transaction rows of a table: everything but header rows
Ledger(values) == SelectSeq(values, LAMBDA r : r # HEADERS)

RECURSIVE IsSubSeq(_, _)
\* a occurs in b, in order, possibly with other rows in between
IsSubSeq(a, b) ==
    IF a = <<>> THEN TRUE
    ELSE IF b = <<>> THEN FALSE
    ELSE IF Head(a) = Head(b) THEN IsSubSeq(Tail(a), Tail(b))
    ELSE IsSubSeq(a, Tail(b))

\* the session's add_transaction call has returned or raised
AddReturned(s) == op[s] = "add" /\ pc[s] = "idle"

\* the session's add_transaction call got as far as save_data
AddSaved(s) == AddReturned(s) /\ result[s] # "ValueError"

-----------------------------------------------------------------------------
(* C1 *)

\* C1: once two sessions' add_transaction calls have both finished, both
\* calls have succeeded and both their rows are in the sheet (a row written
\* by both sessions is there twice).
C1_BothRowsPersist ==
    (\A s \in Sessions : AddSaved(s)) =>
        \A s \in Sessions :
            /\ result[s] = "ok"
            /\ Count(sheet, EntryRow(entry[s]))
                 >= Cardinality({t \in Sessions : entry[t] = entry[s]})

-----------------------------------------------------------------------------
(* C2 *)

\* C2: the ledger is append-only: every step keeps the transaction rows of
\* the sheet, unchanged and in the same order.
C2_AppendOnly == [][IsSubSeq(Ledger(sheet), Ledger(sheet'))]_vars

-----------------------------------------------------------------------------
(* C3 *)

\* the last row of a DataFrame, and the rows before it
Last(df) == df[Len(df)]

Front(df) == SubSeq(df, 1, Len(df) - 1)

\* C3: one session, the cache holding an unexpired snapshot when
\* add_transaction(t) is called: when the call has returned, the session's
\* data is the sheet as it is now, t is its last row, and the monthly total,
\* the weekly total and the day's transactions of t's date include t.
C3_ReadYourWrites ==
    \A s \in Sessions :
        (AddSaved(s) /\ warm[s]) =>
            /\ result[s] = "ok"
            /\ data[s] = Frame(sheet)
            /\ data[s] # <<>>
            /\ LET t == Last(data[s])
                   before == Front(data[s])
                   day == [kind |-> "datetime", y |-> t.date.y, m |-> t.date.m, d |-> t.date.d, text |-> ""]
               IN  /\ t = Typed(entry[s])
                   /\ get_monthly_total(data[s], t.date.y, t.date.m)
                        = get_monthly_total(before, t.date.y, t.date.m) + SignedAmount(t)
                   /\ get_weekly_total(data[s], {t.date})
                        = get_weekly_total(before, {t.date}) + SignedAmount(t)
                   /\ get_transactions_by_date(data[s], day)
                        = Append(get_transactions_by_date(before, day), t)

\* the call was made with the cache warm, and the row it wrote is of a month
\* that held a row before
C3_Witness ==
    \E s \in Sessions :
        /\ AddSaved(s) /\ warm[s] /\ result[s] = "ok"
        /\ Len(data[s]) >= 2
        /\ entry[s].amount = 7
        /\ get_monthly_total(Front(data[s]), 2025, 1) = 1000
        /\ get_monthly_total(data[s], 2025, 1) = 993

-----------------------------------------------------------------------------
(* C4 *)

\* C4: with the cache shared by the sessions, the snapshot a writer holds
\* when its add_transaction has returned contains the row it appended.
C4_WriterReadsOwnWrite ==
    \A s \in Sessions :
        (AddReturned(s) /\ result[s] = "ok") => Contains(data[s], Typed(entry[s]))

-----------------------------------------------------------------------------
(* C5 *)

\* C5: no row of the sheet holds a negative amount.
C5_NoNegativeStored ==
    \A i \in DOMAIN sheet : to_numeric(sheet[i][4]) >= 0

-----------------------------------------------------------------------------
(* C6 *)

\* arguments the ledger must reject: a date that does not parse, an amount
\* that is no number, a type other than Income, Expense, Bill
InvalidArgs(a) ==
    \/ to_datetime(a.date) = NaT
    \/ ~FloatOk(a.amount)
    \/ a.ttype \notin Types

\* the step appends a transaction row to the sheet
RowAppended == Len(sheet') = Len(sheet) + 1 /\ sheet'[Len(sheet')] # HEADERS

\* C6: no step of an add_transaction call with invalid arguments appends a
\* row to the sheet or changes the cache, and the call ends with an error.
C6_InvalidRejected ==
    [][\A s \in Sessions :
          (op[s] = "add" /\ InvalidArgs(args[s]) /\ pc[s] # "idle" /\ pc'[s] # pc[s]) =>
              /\ ~RowAppended
              /\ cache' = cache
              /\ (pc'[s] = "idle" => result'[s] = "ValueError")]_vars

-----------------------------------------------------------------------------
(* C7 *)

ConnPcs == {"conn_read", "conn_clear", "conn_append"}

\* C7: a header check that reads a sheet whose first row is the header
\* returns at once and changes nothing; and the sheet a header check leaves
\* has the header as its first row.  So a second check in a row changes
\* nothing: twice is the same as once.
C7_HealIdempotent ==
    [][\A s \in Sessions :
          /\ (pc[s] = "conn_read" /\ pc'[s] # pc[s] /\ ~HeaderBad(sheet)) =>
                (sheet' = sheet /\ pc'[s] = ret[s])
          /\ (pc[s] \in ConnPcs /\ pc'[s] \notin ConnPcs) =>
                (sheet' # <<>> /\ sheet'[1] = HEADERS)]_vars

\* a second header check in a row has returned: the session loads again,
\* after the load that repaired the header has expired in the cache
C7_Witness ==
    \E s \in Sessions :
        /\ pc[s] = "load_get"
        /\ cache.valid /\ cache.age >= TTL
        /\ adds = 0
        /\ sheet = <<HEADERS>>

-----------------------------------------------------------------------------
(* C8 *)

\* arguments of a valid transaction
ValidArgs(a) ==
    /\ to_datetime(a.date) # NaT
    /\ a.ttype \in Types
    /\ FloatOk(a.amount)
    /\ float(a.amount) >= 0

\* the date a date argument of the model stands for, and its YYYY-MM-DD text
ExpectedDate(date) ==
    CASE date = DateObj(2025, 1, 5) -> <<[y |-> 2025, m |-> 1, d |-> 5], "2025-01-05">>
      [] date = DateStr("01/05/2025") -> <<[y |-> 2025, m |-> 1, d |-> 5], "2025-01-05">>
      [] date = DateStr("2024-12-31") -> <<[y |-> 2024, m |-> 12, d |-> 31], "2024-12-31">>
      [] OTHER -> <<NaT, "">>

\* the number an amount argument of the model stands for
ExpectedAmount(amount) ==
    CASE amount = AmtNum(0) -> 0
      [] amount = AmtNum(7) -> 7
      [] amount = AmtStr("50") -> 50
      [] OTHER -> 0 - 1

\* C8: when add_transaction(t) has returned for a valid t, the session's
\* snapshot holds a row with t's date, type, description and amount, and the
\* sheet holds the row with the date written as YYYY-MM-DD.
C8_RoundTrip ==
    \A s \in Sessions :
        (AddReturned(s) /\ ValidArgs(args[s])) =>
            /\ result[s] = "ok"
            /\ \E i \in DOMAIN data[s] :
                  /\ data[s][i].date = ExpectedDate(args[s].date)[1]
                  /\ data[s][i].type = args[s].ttype
                  /\ data[s][i].description = args[s].desc
                  /\ data[s][i].amount = ExpectedAmount(args[s].amount)
                  /\ sheet[i + 1][1] = ExpectedDate(args[s].date)[2]

\* a valid transaction given with a month-first date text and a text amount
C8_Witness ==
    \E s \in Sessions :
        /\ AddReturned(s) /\ result[s] = "ok"
        /\ args[s].date = DateStr("01/05/2025")
        /\ args[s].amount = AmtStr("50")
        /\ Contains(sheet, <<"2025-01-05", "Expense", "Groceries", "50", "", "TRUE">>)

-----------------------------------------------------------------------------
(* C9 *)

\* the sheet without the rows whose date cell does not parse
Parseable(values) == SelectSeq(values, LAMBDA r : r = HEADERS \/ r[1] \in IsoTexts)

\* C9: in the snapshot a session holds after a load, every row of the sheet
\* below the header is kept, also one whose date does not parse; such a row
\* is in no answer of get_transactions_by_date, and the monthly and weekly
\* totals are those of the sheet without it.
C9_UnparseableExcluded ==
    \A s \in Sessions :
        (pc[s] = "idle" /\ result[s] = "ok") =>
            /\ Len(data[s]) = Len(sheet) - 1
            /\ \A i \in DOMAIN data[s] :
                  sheet[i + 1][1] \notin IsoTexts =>
                      /\ data[s][i].description = sheet[i + 1][3]
                      /\ \A day \in QueryDays :
                            ~Contains(get_transactions_by_date(data[s], day), data[s][i])
            /\ \A ym \in QueryMonths :
                  get_monthly_total(data[s], ym[1], ym[2])
                    = get_monthly_total(Frame(Parseable(sheet)), ym[1], ym[2])
            /\ \A week \in QueryWeeks :
                  get_weekly_total(data[s], week)
                    = get_weekly_total(Frame(Parseable(sheet)), week)
            /\ (answer.q = "day" => \A i \in DOMAIN answer.rows : answer.rows[i].date # NaT)
            /\ (answer.q = "month" =>
                  \E ym \in QueryMonths :
                      answer.total = get_monthly_total(Frame(Parseable(sheet)), ym[1], ym[2]))
            /\ (answer.q = "week" =>
                  \E week \in QueryWeeks :
                      answer.total = get_weekly_total(Frame(Parseable(sheet)), week))

\* the snapshot holds the row dated "not-a-date" beside a dated one, and a
\* monthly total has been asked for
C9_Witness ==
    \E s \in Sessions :
        /\ pc[s] = "idle" /\ result[s] = "ok"
        /\ Len(data[s]) = 2
        /\ sheet[2][1] = "not-a-date"
        /\ data[s][1].date = NaT
        /\ data[s][2].date # NaT
        /\ answer.q = "month"
        /\ answer.total # 0

-----------------------------------------------------------------------------
(* C10 *)

\* the signed amount the totals use for one dated row
UsedInMonth(row) == get_monthly_total(<<row>>, row.date.y, row.date.m)

UsedInWeek(row) == get_weekly_total(<<row>>, {row.date})

\* C10 as stated, for the rows the data model admits (amount >= 0): the
\* signed amount a total uses is positive iff the type is Income.
C10_PositiveIffIncome ==
    \A s \in Sessions : \A i \in DOMAIN data[s] :
        LET row == data[s][i] IN
            (row.date # NaT /\ row.amount >= 0) =>
                /\ (UsedInMonth(row) > 0 <=> row.type = "Income")
                /\ (UsedInWeek(row) > 0 <=> row.type = "Income")

\* C10 amended: the signed amount is the amount for Income and its negative
\* for every other type; with an amount above 0 it is positive iff the type
\* is Income, and with the amount 0 it is 0.
C10_SignedAmount ==
    \A s \in Sessions : \A i \in DOMAIN data[s] :
        LET row == data[s][i] IN
            row.date # NaT =>
                /\ UsedInMonth(row) = UsedInWeek(row)
                /\ (row.type = "Income" => UsedInMonth(row) = row.amount)
                /\ (row.type # "Income" => UsedInMonth(row) + row.amount = 0)
                /\ (row.amount > 0 => (UsedInMonth(row) > 0 <=> row.type = "Income"))
                /\ (row.amount = 0 => UsedInMonth(row) = 0)

\* a snapshot with an Income row of amount 1000 and an Income row of amount 0
C10_Witness ==
    \E s \in Sessions :
        /\ Len(data[s]) = 2
        /\ data[s][1].type = "Income" /\ data[s][1].date # NaT /\ data[s][1].amount = 1000
        /\ data[s][2].type = "Income" /\ data[s][2].date # NaT /\ data[s][2].amount = 0
        /\ UsedInMonth(data[s][1]) = 1000
        /\ UsedInMonth(data[s][2]) = 0

-----------------------------------------------------------------------------
(* C11 *)

\* the sum of the weekly totals of a sidebar
RECURSIVE SumWeeks(_)
SumWeeks(weeks) == IF weeks = <<>> THEN 0 ELSE Head(weeks).total + SumWeeks(Tail(weeks))

\* the number of days in the weeks of a sidebar, a day counted in every week
\* that holds it
RECURSIVE CountDays(_)
CountDays(weeks) ==
    IF weeks = <<>> THEN 0 ELSE Cardinality(Head(weeks).days) + CountDays(Tail(weeks))

DaysOfMonth(year, month) == {[y |-> year, m |-> month, d |-> d] : d \in 1..DaysIn(year, month)}

-----------------------------------------------------------------------------
(* C12 *)

\* the texts of the days of a month, as the sheet holds them
MonthTexts(year, month) == {strftime(dt) : dt \in DaysOfMonth(year, month)}

\* the sum, over the rows of a sheet whose date cell is a day of the month,
\* of the amount cell counted as written for Income and negated otherwise
RECURSIVE LedgerMonthSum(_, _)
LedgerMonthSum(values, texts) ==
    IF values = <<>> THEN 0
    ELSE LET r == Head(values)
             signed == IF r[1] \notin texts \/ r[4] \notin NumTexts THEN 0
                       ELSE IF r[2] = "Income" THEN NumParse[r[4]] ELSE 0 - NumParse[r[4]]
         IN  signed + LedgerMonthSum(Tail(values), texts)

PaycheckRow == <<"2025-01-05", "Income", "Paycheck", "1000", "", "TRUE">>

GroceriesRow == <<"2025-01-05", "Expense", "Groceries", "50", "", "TRUE">>

\* C12: the monthly total the page shows for a month is the sum of the signed
\* amounts of the rows of the sheet dated in that year and month, whatever
\* the day, and of no other row; and once the paycheck of 1000 and the
\* groceries of 50 of 5 January 2025 are appended to an empty ledger, the
\* transactions of that day are both rows and the total of January 2025 is 950.
C12_MonthlyTotal ==
    /\ answer.q = "sidebar" =>
          answer.total
            = LedgerMonthSum(sheet, MonthTexts(answer.selected[1], answer.selected[2]))
    /\ (AddSaved(1) /\ sheet = <<HEADERS, PaycheckRow, GroceriesRow>>) =>
          /\ get_transactions_by_date(data[1], DateObj(2025, 1, 5))
               = <<FrameRow(PaycheckRow), FrameRow(GroceriesRow)>>
          /\ get_monthly_total(data[1], 2025, 1) = 950
          /\ (answer.q = "day" /\ answer.rows # <<>>) =>
                answer.rows = <<FrameRow(PaycheckRow), FrameRow(GroceriesRow)>>
          /\ (answer.q = "sidebar" /\ answer.selected = <<2025, 1>>) => answer.total = 950

\* the two appends to the empty ledger are done and the page shows the total
\* of January 2025
C12_Witness ==
    /\ AddSaved(1)
    /\ adds = 2
    /\ sheet = <<HEADERS, PaycheckRow, GroceriesRow>>
    /\ answer.q = "sidebar"
    /\ answer.selected = <<2025, 1>>
    /\ answer.total = 950

-----------------------------------------------------------------------------
(* C13 *)

\* the session's read (FinanceManager()) has returned or raised
ReadReturned(s) == op[s] = "read" /\ pc[s] = "idle"

\* C13: when a read has ended and the sheet holds no transaction row (it was
\* empty or held only the header when the read began), the read has returned,
\* with no error, an empty snapshot; the sheet is exactly the header row; the
\* monthly and weekly totals are 0 and the transactions of a day are empty,
\* in the answers the page shows and for every month, week and day asked.
C13_EmptyIsAValue ==
    \A s \in Sessions :
        (ReadReturned(s) /\ Len(sheet) <= 1) =>
            /\ result[s] = "ok"
            /\ data[s] = <<>>
            /\ sheet = <<HEADERS>>
            /\ \A ym \in QueryMonths : get_monthly_total(data[s], ym[1], ym[2]) = 0
            /\ \A week \in QueryWeeks : get_weekly_total(data[s], week) = 0
            /\ \A day \in QueryDays : get_transactions_by_date(data[s], day) = <<>>
            /\ answer.q = "day" => answer.rows = <<>>
            /\ answer.q = "sidebar" =>
                  /\ answer.total = 0
                  /\ answer.weeks # <<>>
                  /\ \A k \in DOMAIN answer.weeks : answer.weeks[k].total = 0

\* a read has returned on a sheet without rows, the page shows the sidebar,
\* and the cached empty snapshot has expired since
C13_Witness ==
    /\ ReadReturned(1)
    /\ adds = 0
    /\ sheet = <<HEADERS>>
    /\ data[1] = <<>>
    /\ cache.valid /\ cache.age >= TTL
    /\ answer.q = "sidebar"
    /\ answer.total = 0

-----------------------------------------------------------------------------
(* C14 *)

\* C14: whenever no operation is in flight and an operation that ran the
\* header check has ended, the first row of the sheet is the header, the
\* header is in the sheet once, and so no transaction row is above it.
C14_HeaderContract ==
    ((\A s \in Sessions : pc[s] = "idle") /\ (\E s \in Sessions : result[s] \in {"ok", "KeyError"})) =>
        /\ sheet # <<>>
        /\ sheet[1] = HEADERS
        /\ Count(sheet, HEADERS) = 1

-----------------------------------------------------------------------------
(* C15 *)

\* C15: a snapshot that a session is handed from the cache later than TTL
\* after the latest append has returned contains the appended row, as long as
\* the sheet holds that row.
C15_BoundedStaleness ==
    [][\A s \in Sessions :
          (/\ pc[s] = "load" /\ pc'[s] = "idle"
           /\ appended.row # <<>>
           /\ appended.age > TTL
           /\ Contains(sheet, appended.row))
              => Contains(data'[s], FrameRow(appended.row))]_vars

-----------------------------------------------------------------------------
(* C16 *)

\* a call of load_data_cached looks at the cache
Lookup(s) == pc[s] = "load" /\ pc'[s] # "load"

\* C16: a call of load_data_cached that finds an unexpired snapshot returns it
\* and reads nothing from the sheet; one that finds none goes to the sheet,
\* and what it has loaded it stores and returns; the invalidation of save_data
\* leaves the cache empty whatever it held (so a second one changes nothing);
\* and the first call of load_data_cached after an invalidation goes to the
\* sheet.
C16_CacheProtocol ==
    [][\A s \in Sessions :
          /\ (Lookup(s) /\ CacheHit) =>
                (pc'[s] = "idle" /\ data'[s] = cache.df /\ cache' = cache /\ sheet' = sheet)
          /\ (Lookup(s) /\ ~CacheHit) => (pc'[s] = "conn_read" /\ ret'[s] = "load_get")
          /\ (pc[s] = "load_store" /\ pc'[s] # pc[s]) =>
                (cache' = [valid |-> TRUE, df |-> loaded[s], age |-> 0] /\ data'[s] = loaded[s])
          /\ (pc[s] = "save_clear" /\ pc'[s] # pc[s]) => cache' = NoCache
          /\ (Lookup(s) /\ appended.unread) => pc'[s] = "conn_read"]_vars

-----------------------------------------------------------------------------
(* C17 *)

\* the session's last operation ended with the exception of a remote call
Failed(s) == pc[s] = "idle" /\ result[s] = "APIError"

\* C17: with remote calls that can fail, what the cache holds is the sheet as
\* it is (never an empty or an older snapshot stored for a read that failed),
\* and so is the snapshot of an operation that returned; a failed operation
\* hands its caller the error; and a step empties the cache only as the
\* invalidation of a save_data that has appended its row.
C17_FailurePropagates ==
    /\ []((cache.valid /\ \A w \in Sessions : pc[w] # "save_clear") => cache.df = Frame(sheet))
    /\ [](\A s \in Sessions :
            /\ (pc[s] = "idle" /\ result[s] = "ok") => data[s] = Frame(sheet)
            /\ (pc[s] = "idle" /\ op[s] # "none") => result[s] \in {"ok", "APIError"})
    /\ [][\A s \in Sessions :
            /\ (pc[s] \in RemotePcs /\ pc'[s] = "idle") =>
                  (result'[s] # "ok" /\ cache' = cache /\ data'[s] = data[s])
            /\ (cache.valid /\ ~cache'.valid) =>
                  \E w \in Sessions :
                      /\ pc[w] = "save_clear"
                      /\ sheet[Len(sheet)] = EntryRow(entry[w])]_vars

\* an add_transaction whose save_data failed before the append, called with
\* the cache warm: the cache still holds the snapshot of the sheet
C17_Witness ==
    /\ Failed(1)
    /\ op[1] = "add"
    /\ warm[1]
    /\ cache.valid
    /\ Len(sheet) = 2
    /\ cache.df = Frame(sheet)
    /\ ~Contains(sheet, EntryRow(entry[1]))

-----------------------------------------------------------------------------
(* C18 *)

\* a DataFrame with other values in the two recurring columns
Retagged(df) ==
    [i \in DOMAIN df |-> [df[i] EXCEPT !.recurring_id = "other", !.recurring_active = "FALSE"]]

\* C18: when add_transaction has written a row, the row's recurring_id cell
\* is non-empty exactly if the call was made with type Bill and the recurring
\* flag, its recurring_active cell is TRUE, and the snapshot reads both back
\* as written; and for every snapshot a session holds between its calls, the
\* totals of a month and of a week and the rows selected for a day are the
\* same when the two columns hold other values.
C18_RecurringTag ==
    \A s \in Sessions :
        /\ AddSaved(s) =>
              LET row == sheet[Len(sheet)] IN
                  /\ row[2] = args[s].ttype /\ row[3] = args[s].desc
                  /\ (row[5] # "" <=> (args[s].ttype = "Bill" /\ args[s].recurring))
                  /\ row[6] = "TRUE"
                  /\ data[s] # <<>>
                  /\ Last(data[s]).recurring_id = row[5]
                  /\ Last(data[s]).recurring_active = "TRUE"
        /\ pc[s] = "idle" =>
              /\ \A ym \in QueryMonths :
                    get_monthly_total(Retagged(data[s]), ym[1], ym[2])
                      = get_monthly_total(data[s], ym[1], ym[2])
              /\ \A week \in QueryWeeks :
                    get_weekly_total(Retagged(data[s]), week) = get_weekly_total(data[s], week)
              /\ \A day \in QueryDays :
                    get_transactions_by_date(Retagged(data[s]), day)
                      = Retagged(get_transactions_by_date(data[s], day))

\* a Bill added with the recurring flag: its row carries the tag, and the
\* transactions of its day have been asked for
C18_Witness ==
    /\ AddSaved(1)
    /\ args[1].ttype = "Bill" /\ args[1].recurring
    /\ sheet[Len(sheet)][5] \in {"Rent-u1", "Rent-u2"}
    /\ Last(data[1]).recurring_id = sheet[Len(sheet)][5]
    /\ answer.q = "day"
    /\ answer.rows # <<>>

====
